---- MODULE Spec2Model ----
(***************************************************************************)
(* DebateRAG: the debate engine (debate_pipeline.py) and its two transport *)
(* adapters (app.py): the batched handler debate_endpoint and the          *)
(* streaming handler debate_websocket with its producer thread             *)
(* run_pipeline, the event-loop callbacks of call_soon_threadsafe and the  *)
(* asyncio.Queue between them.                                             *)
(*                                                                         *)
(* Text is a sequence of one-character strings, so that strip() and        *)
(* _compact() are computed.  An optional value (int | None) is <<>> for    *)
(* None and <<v>> for v.  The Chunker, the Retriever, the Completion       *)
(* Service and the clock are deterministic stubs whose behaviour is part   *)
(* of the scenario chosen in Init.                                         *)
(***************************************************************************)
EXTENDS Integers, Sequences, FiniteSets, TLC

VARIABLES
    scn,        \* the scenario: request payload, credential, stub behaviour
    connected,  \* the consumer has not disconnected
    hpc,        \* position of debate_websocket
    cur,        \* the event debate_websocket holds between get and send
    wire,       \* messages delivered to the consumer, in order
    refused,    \* messages whose send was attempted on a disconnected consumer
    closes,     \* number of ws.close() calls
    queue,      \* the asyncio.Queue
    pending,    \* callbacks scheduled by call_soon_threadsafe, not yet run
    ppc,        \* position of run_pipeline (the producer thread)
    gen,        \* the generator stream_debate(...) held by run_pipeline
    produced,   \* events the generator has yielded to run_pipeline
    enqueued,   \* items run_pipeline has handed to call_soon_threadsafe
    batch       \* outcome of debate_endpoint, <<>> before it ran

vars == <<scn, connected, hpc, cur, wire, refused, closes, queue, pending,
          ppc, gen, produced, enqueued, batch>>

--------------------------------------------------------------------------
(* Bounds of the model *)

MaxDocs == 2            \* documents per request
MaxTopK == 5            \* largest top_k of the shape scenarios
MaxSplits == 3          \* chunks the stub Chunker cuts a document into
MaxFailAt == 11         \* latest collaborator call that a stub lets fail
MaxElapsed == 1         \* clock readings are 0..MaxElapsed
MaxInFlight == 2        \* events produced and not yet taken by the relay
MaxDisconnectAfter == 2 \* the consumer leaves after at most this many events
AnswerSpace == 5        \* distinct answers of the stub Completion Service
PreviewSlack == 2       \* chunk lengths reach this far past COMPACT_LIMIT

(* Program constants *)

TOP_K_MAX == 20
ROUNDS_MAX == 4
COMPACT_LIMIT == 200

DEFAULT_MODEL == "gpt-5-nano-2025-08-07"

--------------------------------------------------------------------------
(* Text *)

Min(a, b) == IF a < b THEN a ELSE b

IsSpace(c) == c \in {" ", "\n"}

RECURSIVE LStrip(_)
LStrip(s) == IF s # <<>> /\ IsSpace(Head(s)) THEN LStrip(Tail(s)) ELSE s

RECURSIVE RStrip(_)
RStrip(s) ==
    IF s # <<>> /\ IsSpace(s[Len(s)]) THEN RStrip(SubSeq(s, 1, Len(s) - 1)) ELSE s

\* str.strip()
Strip(s) == RStrip(LStrip(s))

\* " ".join(text.split()): whitespace runs become one space, ends are stripped
Kept(c) == c # ""

Collapse(s) ==
    LET end == Len(RStrip(s))
        marked == [i \in 1..Len(s) |->
                     IF ~IsSpace(s[i]) THEN s[i]
                     ELSE IF i > 1 /\ i < end /\ ~IsSpace(s[i - 1]) THEN " "
                     ELSE ""]
    IN  SelectSeq(marked, Kept)

\* Mutant of compact: cleaned[:limit] instead of cleaned[: limit - 3]
compactCutsAtLimit(text, limit) ==
    LET cleaned == Collapse(text) IN
    IF Len(cleaned) <= limit THEN cleaned
    ELSE RStrip(SubSeq(cleaned, 1, limit)) \o <<".", ".", ".">>

\* _compact(text, limit=200)
compact(text, limit) ==
    LET cleaned == Collapse(text) IN
    IF Len(cleaned) <= limit THEN cleaned
    ELSE RStrip(SubSeq(cleaned, 1, limit - 3)) \o <<".", ".", ".">>

--------------------------------------------------------------------------
(* Optional values *)

None == <<>>
Some(x) == <<x>>

--------------------------------------------------------------------------
(* Stub collaborators.  inp is the engine's input: the arguments of        *)
(* stream_debate, the credential and the behaviour of the stubs.           *)

\* RecursiveCharacterTextSplitter.create_documents: inp.splits chunks per
\* document, in document order, each carrying its document's metadata
create_documents(inp, cleaned_docs) ==
    [n \in 1..(Len(cleaned_docs) * inp.splits) |->
        LET index == (n - 1) \div inp.splits
            piece == (n - 1) % inp.splits
        IN  [page_content |-> cleaned_docs[index + 1],
             metadata |-> [doc_id |-> index + 1,
                           source |-> <<"user_doc_", index + 1>>,
                           start_index |-> piece]]]

Reverse(s) == [n \in 1..Len(s) |-> s[Len(s) + 1 - n]]

\* InMemoryVectorStore.similarity_search(query, k): the k best chunks of the
\* stub's ranking, of which only inp.hits score at all
similarity_search(inp, all_splits, k) ==
    LET ranking == IF inp.rank = "rev" THEN Reverse(all_splits) ELSE all_splits
    IN  SubSeq(ranking, 1, Min(Min(k, inp.hits), Len(all_splits)))

CharCode(c) == CASE c = "a" -> 1 [] c = "b" -> 2 [] OTHER -> 0

CodeOne(c) == CharCode(c) = 1

CodeTwo(c) == CharCode(c) = 2

TextCode(t) == (Len(SelectSeq(t, CodeOne)) + 2 * Len(SelectSeq(t, CodeTwo))) % 7

RECURSIVE ListCode(_)
ListCode(rs) ==
    IF rs = <<>> THEN 1
    ELSE (3 * ListCode(SubSeq(rs, 1, Len(rs) - 1)) + rs[Len(rs)][2] + 1) % 7

KindCode(kind) ==
    CASE kind = "evidence" -> 0 [] kind = "ambiguity" -> 1
      [] kind = "debate" -> 2 [] OTHER -> 3

\* The Completion Service: a deterministic function of the prompt
Complete(prompt) ==
    <<"ans",
      (KindCode(prompt.kind) + TextCode(prompt.doc) + 2 * ListCode(prompt.responses)
         + (IF prompt.guidance = <<>> THEN 0 ELSE 3 * (prompt.guidance[2] + 1)))
      % AnswerSpace>>

\* _run_agent: the last non-empty message content of the agent, stripped
run_agent(inp, system_prompt) == Complete(system_prompt)

--------------------------------------------------------------------------
(* stream_debate as a generator: GenNext is one next() on it, from the     *)
(* yield it is suspended at to the next yield, raise or return.  ncalls    *)
(* counts the collaborator calls made, prompts logs the prompts given to   *)
(* the Completion Service and exc keeps the exception the generator raised.*)

DebateStep(stage, speaker, message, round, doc_id) ==
    [stage |-> stage, speaker |-> speaker, message |-> message,
     round |-> round, doc_id |-> doc_id]

StepEvent(step) == [event |-> "step", data |-> step]

GenInit ==
    [pc |-> "start", cleaned_docs |-> <<>>, all_splits |-> <<>>,
     retrieved_docs |-> <<>>, intermediate_results |-> <<>>,
     history_results |-> <<>>, ambiguity_guidance |-> <<>>, round_idx |-> 0,
     idx |-> 0, final_answer |-> <<>>, embedding_seconds |-> 0,
     ncalls |-> 0, prompts |-> <<>>, exc |-> <<>>]

Yielded(g, ev) == [kind |-> "yield", g |-> g, event |-> ev]

Raised(g, type, msg) ==
    [kind |-> "raise",
     g |-> [g EXCEPT !.pc = "closed", !.exc = <<[type |-> type, msg |-> msg]>>],
     exc |-> [type |-> type, msg |-> msg]]

Stopped(g) == [kind |-> "stop", g |-> [g EXCEPT !.pc = "closed"]]

\* The stubs let the inp.failAt-th collaborator call of a run raise
CollabFails(inp, g) == g.ncalls + 1 = inp.failAt

Called(g) == [g EXCEPT !.ncalls = @ + 1]

CollabError(inp, g) == Raised(Called(g), inp.failType, <<"collaborator failed">>)

\* Mutant of CleanedDocs: `if doc` instead of `if doc.strip()`
RECURSIVE CleanedDocsKeepsBlank(_)
CleanedDocsKeepsBlank(documents) ==
    IF documents = <<>> THEN <<>>
    ELSE IF Head(documents) # <<>>
         THEN <<Strip(Head(documents))>> \o CleanedDocsKeepsBlank(Tail(documents))
         ELSE CleanedDocsKeepsBlank(Tail(documents))

\* [doc.strip() for doc in documents if doc.strip()]
RECURSIVE CleanedDocs(_)
CleanedDocs(documents) ==
    IF documents = <<>> THEN <<>>
    ELSE IF Strip(Head(documents)) # <<>>
         THEN <<Strip(Head(documents))>> \o CleanedDocs(Tail(documents))
         ELSE CleanedDocs(Tail(documents))

\* Mutant of StartNext: the documents are checked before the credential
StartNextDocsFirst(inp, g) ==
    LET cleaned_docs == CleanedDocs(inp.documents)
        g1 == Called(g)
        all_splits == create_documents(inp, cleaned_docs)
        g2 == [Called(g1) EXCEPT !.cleaned_docs = cleaned_docs,
                                 !.all_splits = all_splits, !.pc = "setup"]
    IN  IF cleaned_docs = <<>>
        THEN Raised(g, "ValueError", <<"At least one non-empty document is required.">>)
        ELSE IF ~inp.hasKey
        THEN Raised(g, "RuntimeError", <<"OPENAI_API_KEY is not set in the environment.">>)
        ELSE IF CollabFails(inp, g) THEN CollabError(inp, g)
        ELSE IF CollabFails(inp, g1) THEN CollabError(inp, g1)
        ELSE Yielded(g2, StepEvent(DebateStep("setup", <<"System">>,
                 <<"Received", Len(cleaned_docs), "documents. Split into",
                   Len(all_splits), "chunks.">>, None, None)))

\* lines 57-86: credential, cleaning, model, chunking, first setup step
StartNext(inp, g) ==
    LET cleaned_docs == CleanedDocs(inp.documents)
        g1 == Called(g)
        all_splits == create_documents(inp, cleaned_docs)
        g2 == [Called(g1) EXCEPT !.cleaned_docs = cleaned_docs,
                                 !.all_splits = all_splits, !.pc = "setup"]
    IN  IF ~inp.hasKey
        THEN Raised(g, "RuntimeError", <<"OPENAI_API_KEY is not set in the environment.">>)
        ELSE IF cleaned_docs = <<>>
        THEN Raised(g, "ValueError", <<"At least one non-empty document is required.">>)
        ELSE IF CollabFails(inp, g) THEN CollabError(inp, g)
        ELSE IF CollabFails(inp, g1) THEN CollabError(inp, g1)
        ELSE Yielded(g2, StepEvent(DebateStep("setup", <<"System">>,
                 <<"Received", Len(cleaned_docs), "documents. Split into",
                   Len(all_splits), "chunks.">>, None, None)))

\* lines 88-93
IndexingNext(inp, g) ==
    Yielded([g EXCEPT !.pc = "indexing"],
            StepEvent(DebateStep("indexing", <<"Indexer">>,
                <<"Embedding documents for retrieval...">>, None, None)))

\* lines 95-110: add_documents timed by the clock, similarity_search
SearchNext(inp, g, elapsed) ==
    LET g1 == Called(g)
        retrieved_docs ==
            similarity_search(inp, g.all_splits, Min(inp.top_k, Len(g.all_splits)))
        g2 == [Called(g1) EXCEPT !.embedding_seconds = elapsed,
                                 !.retrieved_docs = retrieved_docs,
                                 !.pc = "retrieved"]
    IN  IF CollabFails(inp, g) THEN CollabError(inp, g)
        ELSE IF CollabFails(inp, g1) THEN CollabError(inp, g1)
        ELSE Yielded(g2, StepEvent(DebateStep("setup", <<"System">>,
                 <<"Retrieved", Len(retrieved_docs), "chunks for the query.">>,
                 None, None)))

\* lines 112-122
RetrievalNext(inp, g) ==
    LET retrieval_lines ==
            [i \in 1..Len(g.retrieved_docs) |->
                <<i, g.retrieved_docs[i].metadata.doc_id,
                  compact(g.retrieved_docs[i].page_content, COMPACT_LIMIT)>>]
    IN  Yielded([g EXCEPT !.pc = "retrieval"],
            StepEvent(DebateStep("retrieval", <<"Retriever">>,
                IF retrieval_lines # <<>> THEN <<"lines", retrieval_lines>>
                ELSE <<"No chunks retrieved.">>, None, None)))

Prompt(kind, query, doc, responses, guidance) ==
    [kind |-> kind, query |-> query, doc |-> doc, responses |-> responses,
     guidance |-> guidance]

\* One _run_agent call: the outcome of the call and the generator after it
AgentCall(inp, g, prompt) ==
    [fails |-> CollabFails(inp, g),
     g |-> [Called(g) EXCEPT !.prompts = Append(@, prompt)],
     response |-> run_agent(inp, prompt)]

\* Mutant of AgentError: the failure is swallowed and the stage tried again
AgentErrorSwallowed(inp, call) ==
    Yielded(call.g, StepEvent(DebateStep("evidence", <<"Doc Agent", 0>>, <<>>,
                                         None, None)))

\* The call raised: nothing of the generator's state changes but the call log
AgentError(inp, call) == Raised(call.g, inp.failType, <<"collaborator failed">>)

\* lines 125-147, the loop body for idx = i
EvidenceNext(inp, g, i) ==
    LET doc == g.retrieved_docs[i]
        call == AgentCall(inp, g, Prompt("evidence", inp.query, doc.page_content, <<>>, <<>>))
        g2 == [call.g EXCEPT !.intermediate_results = Append(@, call.response),
                             !.idx = i, !.pc = "evidence"]
    IN  IF call.fails THEN AgentError(inp, call)
        ELSE Yielded(g2, StepEvent(DebateStep("evidence", <<"Doc Agent", i>>,
                 call.response, Some(0), Some(doc.metadata.doc_id))))

\* Mutant of AmbiguityNext: every ambiguity step is tagged round 0
AmbiguityNextUntagged(inp, g, r) ==
    LET call == AgentCall(inp, g, Prompt("ambiguity", inp.query, <<>>,
                                         g.intermediate_results, <<>>))
        g2 == [call.g EXCEPT !.ambiguity_guidance = call.response,
                             !.round_idx = r, !.pc = "ambiguity"]
    IN  IF call.fails THEN AgentError(inp, call)
        ELSE Yielded(g2, StepEvent(DebateStep("ambiguity", <<"Ambiguity Solver">>,
                 call.response, Some(0), None)))

\* lines 157-168 (r = 0) and lines 204-215 (r >= 1)
AmbiguityNext(inp, g, r) ==
    LET call == AgentCall(inp, g, Prompt("ambiguity", inp.query, <<>>,
                                         g.intermediate_results, <<>>))
        g2 == [call.g EXCEPT !.ambiguity_guidance = call.response,
                             !.round_idx = r, !.pc = "ambiguity"]
    IN  IF call.fails THEN AgentError(inp, call)
        ELSE Yielded(g2, StepEvent(DebateStep("ambiguity", <<"Ambiguity Solver">>,
                 call.response, Some(r), None)))

\* Mutant of DebateNext: the answers of the round replace those of the round
\* before in place, so a debater sees the new answers of the debaters before it
DebateNextSeesNewAnswers(inp, g, r, i) ==
    LET doc == g.retrieved_docs[i]
        seen == g.intermediate_results
                  \o SubSeq(g.history_results, Len(g.intermediate_results) + 1,
                            Len(g.history_results))
        call == AgentCall(inp, g, Prompt("debate", inp.query, doc.page_content,
                                         seen, g.ambiguity_guidance))
        g2 == [call.g EXCEPT !.intermediate_results = Append(@, call.response),
                             !.round_idx = r, !.idx = i, !.pc = "debate"]
    IN  IF call.fails THEN AgentError(inp, call)
        ELSE Yielded(g2, StepEvent(DebateStep("debate", <<"Debater", i>>,
                 call.response, Some(r), Some(doc.metadata.doc_id))))

\* lines 174-202, the loop body for round r and idx = i
DebateNext(inp, g, r, i) ==
    LET doc == g.retrieved_docs[i]
        call == AgentCall(inp, g, Prompt("debate", inp.query, doc.page_content,
                                         g.history_results, g.ambiguity_guidance))
        g2 == [call.g EXCEPT !.intermediate_results = Append(@, call.response),
                             !.round_idx = r, !.idx = i, !.pc = "debate"]
    IN  IF call.fails THEN AgentError(inp, call)
        ELSE Yielded(g2, StepEvent(DebateStep("debate", <<"Debater", i>>,
                 call.response, Some(r), Some(doc.metadata.doc_id))))

\* lines 170-172: round r begins; the answers so far become the history
RoundNext(inp, g, r) ==
    LET g1 == [g EXCEPT !.history_results = g.intermediate_results,
                        !.intermediate_results = <<>>, !.round_idx = r]
    IN  IF Len(g.retrieved_docs) >= 1 THEN DebateNext(inp, g1, r, 1)
        ELSE AmbiguityNext(inp, g1, r)

\* lines 217-236
SynthesisNext(inp, g) ==
    LET call == AgentCall(inp, g, Prompt("synthesis", inp.query, <<>>,
                                         g.intermediate_results, <<>>))
        g2 == [call.g EXCEPT !.final_answer = call.response, !.pc = "synthesis"]
    IN  IF call.fails THEN AgentError(inp, call)
        ELSE Yielded(g2, StepEvent(DebateStep("synthesis", <<"Synthesizer">>,
                 call.response, Some(inp.rounds), None)))

\* Mutant of Stats: len(documents) instead of len(cleaned_docs)
StatsCountsAllDocs(inp, g) ==
    [documents |-> Len(inp.documents), chunks |-> Len(g.all_splits),
     retrieved |-> Len(g.retrieved_docs), model |-> inp.model_name,
     rounds |-> inp.rounds, embedding_seconds |-> g.embedding_seconds]

\* lines 238-245
Stats(inp, g) ==
    [documents |-> Len(g.cleaned_docs), chunks |-> Len(g.all_splits),
     retrieved |-> Len(g.retrieved_docs), model |-> inp.model_name,
     rounds |-> inp.rounds, embedding_seconds |-> g.embedding_seconds]

\* line 247
DoneNext(inp, g) ==
    Yielded([g EXCEPT !.pc = "done"],
            [event |-> "done", final_answer |-> g.final_answer,
             stats |-> Stats(inp, g), query |-> inp.query])

\* Mutant of AfterAmbiguity: range(1, rounds) instead of range(1, rounds + 1)
AfterAmbiguityOneRoundShort(inp, g) ==
    IF g.round_idx + 1 < inp.rounds THEN RoundNext(inp, g, g.round_idx + 1)
    ELSE SynthesisNext(inp, g)

\* line 170: the next round, or the synthesis after the last one
AfterAmbiguity(inp, g) ==
    IF g.round_idx < inp.rounds THEN RoundNext(inp, g, g.round_idx + 1)
    ELSE SynthesisNext(inp, g)

\* next() on the generator; elapsed is what the clock measures if this step
\* is the one that embeds
GenNext(inp, g, elapsed) ==
    CASE g.pc = "start" -> StartNext(inp, g)
      [] g.pc = "setup" -> IndexingNext(inp, g)
      [] g.pc = "indexing" -> SearchNext(inp, g, elapsed)
      [] g.pc = "retrieved" -> RetrievalNext(inp, g)
      [] g.pc = "retrieval" ->
            IF Len(g.retrieved_docs) >= 1 THEN EvidenceNext(inp, g, 1)
            ELSE AmbiguityNext(inp, g, 0)
      [] g.pc = "evidence" ->
            IF g.idx < Len(g.retrieved_docs) THEN EvidenceNext(inp, g, g.idx + 1)
            ELSE AmbiguityNext(inp, g, 0)
      [] g.pc = "ambiguity" -> AfterAmbiguity(inp, g)
      [] g.pc = "debate" ->
            IF g.idx < Len(g.retrieved_docs)
            THEN DebateNext(inp, g, g.round_idx, g.idx + 1)
            ELSE AmbiguityNext(inp, g, g.round_idx)
      [] g.pc = "synthesis" -> DoneNext(inp, g)
      [] OTHER -> Stopped(g)

--------------------------------------------------------------------------
(* run_debate: drains the generator on the caller's thread *)

\* Mutant of DrainLoop: steps = [event["data"]] instead of steps.append(...)
RECURSIVE DrainLoopOverwrites(_, _, _, _)
DrainLoopOverwrites(inp, acc, g, elapsed) ==
    LET r == GenNext(inp, g, elapsed) IN
    IF r.kind = "raise" THEN [kind |-> "raise", exc |-> r.exc, g |-> r.g]
    ELSE IF r.kind = "stop" THEN [kind |-> "return", value |-> acc, g |-> r.g]
    ELSE IF r.event.event = "step"
         THEN DrainLoopOverwrites(inp, [acc EXCEPT !.steps = <<r.event.data>>], r.g, elapsed)
    ELSE IF r.event.event = "done"
         THEN DrainLoopOverwrites(inp, [acc EXCEPT !.final_answer = r.event.final_answer,
                                                   !.stats = <<r.event.stats>>], r.g, elapsed)
    ELSE DrainLoopOverwrites(inp, acc, r.g, elapsed)

\* lines 261-272: the for loop over stream_debate(...)
RECURSIVE DrainLoop(_, _, _, _)
DrainLoop(inp, acc, g, elapsed) ==
    LET r == GenNext(inp, g, elapsed) IN
    IF r.kind = "raise" THEN [kind |-> "raise", exc |-> r.exc, g |-> r.g]
    ELSE IF r.kind = "stop" THEN [kind |-> "return", value |-> acc, g |-> r.g]
    ELSE IF r.event.event = "step"
         THEN DrainLoop(inp, [acc EXCEPT !.steps = Append(@, r.event.data)], r.g, elapsed)
    ELSE IF r.event.event = "done"
         THEN DrainLoop(inp, [acc EXCEPT !.final_answer = r.event.final_answer,
                                         !.stats = <<r.event.stats>>], r.g, elapsed)
    ELSE DrainLoop(inp, acc, r.g, elapsed)

\* lines 257-279; stats = {} is <<>> and the stats of the done event <<stats>>
run_debate(inp, elapsed) ==
    DrainLoop(inp, [query |-> inp.query, steps |-> <<>>, final_answer |-> <<>>,
                    stats |-> <<>>], GenInit, elapsed)

--------------------------------------------------------------------------
(* Scenarios: the request, the credential and the stubs' behaviour *)

DocTexts == {<<" ">>, <<"a">>, <<" ", "b", "\n">>}

DocLists == UNION {[1..n -> DocTexts] : n \in 0..MaxDocs}

ExcTypes == {"ValueError", "RuntimeError", "Exception"}

Base ==
    [payload |-> "dict", documents |-> <<<<"a">>, <<" ", "b", "\n">>>>,
     query |-> "q", model |-> None, top_k |-> 2, rounds |-> 1, hasKey |-> TRUE,
     splits |-> 1, hits |-> TOP_K_MAX, rank |-> "fwd", failAt |-> 0,
     failType |-> "RuntimeError"]

\* every shape of a completed run: retrieved chunks 0..MaxTopK, rounds 1..4
ShapeCases ==
    {[Base EXCEPT !.top_k = k, !.rounds = r, !.splits = MaxSplits] :
        k \in 1..MaxTopK, r \in 1..ROUNDS_MAX}
    \cup {[Base EXCEPT !.rounds = r, !.hits = 0] : r \in 1..ROUNDS_MAX}

\* every document list, with and without the credential, both rankings
DocCases ==
    {[Base EXCEPT !.documents = d, !.hasKey = h, !.rank = o] :
        d \in DocLists, h \in BOOLEAN, o \in {"fwd", "rev"}}

\* every collaborator call failing, with every exception type
FaultCases ==
    {[Base EXCEPT !.failAt = n, !.failType = t] : n \in 1..MaxFailAt, t \in ExcTypes}

\* the other payloads a client can send, or not send
RequestCases ==
    {[Base EXCEPT !.payload = p] : p \in {"none", "badjson", "nondict"}}
    \cup {[Base EXCEPT !.query = ""], [Base EXCEPT !.model = Some("custom-model")],
          [Base EXCEPT !.top_k = 0], [Base EXCEPT !.top_k = TOP_K_MAX + 1],
          [Base EXCEPT !.rounds = 0], [Base EXCEPT !.rounds = ROUNDS_MAX + 1]}

Rep(c, n) == [i \in 1..n |-> c]

\* a document of n characters: a word that ends where _compact cuts, a
\* whitespace run of w characters, a second word
LongText(n, w) ==
    Rep("a", COMPACT_LIMIT - 4) \o SubSeq(<<" ", "\n", " ">>, 1, w)
        \o Rep("b", n - (COMPACT_LIMIT - 4) - w)

\* one chunk of about COMPACT_LIMIT characters, with and without whitespace runs
PreviewCases ==
    {[Base EXCEPT !.documents = <<LongText(n, w)>>, !.top_k = 1] :
        n \in (COMPACT_LIMIT - PreviewSlack + 1)..(COMPACT_LIMIT + PreviewSlack),
        w \in 0..2}

Scenarios ==
    ShapeCases \cup DocCases \cup FaultCases \cup RequestCases \cup PreviewCases

\* DebateRequest: the pydantic validation of the payload
ValidRequest(s) ==
    /\ s.query # ""
    /\ Len(s.documents) >= 1
    /\ s.top_k >= 1 /\ s.top_k <= TOP_K_MAX
    /\ s.rounds >= 1 /\ s.rounds <= ROUNDS_MAX

\* payload.model or DEFAULT_MODEL, and the arguments handed to the engine
Inp(s) ==
    [documents |-> s.documents, query |-> s.query,
     model_name |-> IF s.model = None THEN DEFAULT_MODEL ELSE s.model[1],
     top_k |-> s.top_k, rounds |-> s.rounds, hasKey |-> s.hasKey,
     splits |-> s.splits, hits |-> s.hits, rank |-> s.rank,
     failAt |-> s.failAt, failType |-> s.failType]

--------------------------------------------------------------------------
(* State *)

Init ==
    /\ scn \in Scenarios
    /\ connected = TRUE
    /\ hpc = "accept"
    /\ cur = <<>>
    /\ wire = <<>>
    /\ refused = <<>>
    /\ closes = 0
    /\ queue = <<>>
    /\ pending = <<>>
    /\ ppc = "idle"
    /\ gen = GenInit
    /\ produced = <<>>
    /\ enqueued = <<>>
    /\ batch = <<>>

ErrorEvent(detail) == [event |-> "error", detail |-> detail]

IsPipelineEvent(m) == m.event \in {"step", "done", "error"}

\* the PipelineEvents among the messages delivered to the consumer
Delivered == SelectSeq(wire, IsPipelineEvent)

--------------------------------------------------------------------------
(* debate_websocket.  Each action is the handler's run from one await to   *)
(* the next.  ws.send_json on a consumer that has disconnected raises      *)
(* WebSocketDisconnect: inside the try that is the return of line 95,      *)
(* inside an except clause it leaves the handler.                          *)

\* Mutant of SendInTry: the relay swallows WebSocketDisconnect and goes on
SendInTryGoesOn(msg, next) ==
    /\ hpc' = next
    /\ IF connected
       THEN wire' = Append(wire, msg) /\ UNCHANGED refused
       ELSE refused' = Append(refused, msg) /\ UNCHANGED wire

\* await ws.send_json(msg) inside the try block, then continue at `next`
SendInTry(msg, next) ==
    IF connected
    THEN /\ wire' = Append(wire, msg)
         /\ hpc' = next
         /\ UNCHANGED refused
    ELSE /\ refused' = Append(refused, msg)
         /\ hpc' = "returned"
         /\ UNCHANGED wire

\* line 43
Accept ==
    /\ hpc = "accept"
    /\ hpc' = "receive"
    /\ UNCHANGED <<scn, enqueued, connected, cur, wire, refused, closes, queue, pending,
                   ppc, gen, produced, batch>>

\* lines 45-57: the payload, or the timeout, then DebateRequest(**payload)
Receive ==
    /\ hpc = "receive"
    /\ IF ~connected THEN hpc' = "returned" /\ cur' = cur
       ELSE IF scn.payload = "none" THEN hpc' = "timeout_send" /\ cur' = cur
       ELSE IF scn.payload = "badjson"
            THEN hpc' = "except_send" /\ cur' = ErrorEvent(<<"invalid JSON">>)
       ELSE IF scn.payload = "nondict"
            THEN /\ hpc' = "except_send"
                 /\ cur' = ErrorEvent(<<"Unexpected error: ", "argument after ** must be a mapping">>)
       ELSE IF ~ValidRequest(scn)
            THEN hpc' = "except_send" /\ cur' = ErrorEvent(<<"validation errors">>)
       ELSE hpc' = "ready1" /\ cur' = cur
    /\ UNCHANGED <<scn, enqueued, connected, wire, refused, closes, queue, pending, ppc,
                   gen, produced, batch>>

\* Mutant of SendTimeoutError: the handler returns without ws.close()
SendTimeoutErrorNoClose ==
    /\ hpc = "timeout_send"
    /\ SendInTry(ErrorEvent(<<"No payload received. Send JSON after connecting.">>),
                 "returned")
    /\ UNCHANGED <<scn, enqueued, connected, cur, closes, queue, pending, ppc, gen,
                   produced, batch>>

\* lines 48-53
SendTimeoutError ==
    /\ hpc = "timeout_send"
    /\ SendInTry(ErrorEvent(<<"No payload received. Send JSON after connecting.">>),
                 "timeout_close")
    /\ UNCHANGED <<scn, enqueued, connected, cur, closes, queue, pending, ppc, gen,
                   produced, batch>>

\* lines 54-55
CloseAfterTimeout ==
    /\ hpc = "timeout_close"
    /\ closes' = closes + 1
    /\ hpc' = "returned"
    /\ UNCHANGED <<scn, enqueued, connected, cur, wire, refused, queue, pending, ppc, gen,
                   produced, batch>>

\* line 58
SendReady ==
    /\ hpc = "ready1"
    /\ SendInTry([event |-> "ready"], "ready2")
    /\ UNCHANGED <<scn, enqueued, connected, cur, closes, queue, pending, ppc, gen,
                   produced, batch>>

\* line 60
SendReadyAgain ==
    /\ hpc = "ready2"
    /\ SendInTry([event |-> "ready"], "sleep")
    /\ UNCHANGED <<scn, enqueued, connected, cur, closes, queue, pending, ppc, gen,
                   produced, batch>>

\* lines 61-87: after sleep(0) the queue is made and the producer thread started
StartPipeline ==
    /\ hpc = "sleep"
    /\ hpc' = "get"
    /\ queue' = <<>>
    /\ ppc' = "run"
    /\ UNCHANGED <<scn, enqueued, connected, cur, wire, refused, closes, pending, gen,
                   produced, batch>>

\* lines 87-89: queue.get() returns the oldest item; the sentinel ends the loop
RelayGet ==
    /\ hpc = "get"
    /\ queue # <<>>
    /\ queue' = Tail(queue)
    /\ IF Head(queue).event = "_done"
       THEN hpc' = "await_task" /\ cur' = cur
       ELSE hpc' = "send" /\ cur' = Head(queue)
    /\ UNCHANGED <<scn, enqueued, connected, wire, refused, closes, pending, ppc, gen,
                   produced, batch>>

\* line 90
RelaySend ==
    /\ hpc = "send"
    /\ SendInTry(cur, "get")
    /\ UNCHANGED <<scn, enqueued, connected, cur, closes, queue, pending, ppc, gen,
                   produced, batch>>

\* line 92
AwaitPipelineTask ==
    /\ hpc = "await_task"
    /\ ppc = "exited"
    /\ hpc' = "close"
    /\ UNCHANGED <<scn, enqueued, connected, cur, wire, refused, closes, queue, pending,
                   ppc, gen, produced, batch>>

\* line 93
Close ==
    /\ hpc = "close"
    /\ closes' = closes + 1
    /\ hpc' = "returned"
    /\ UNCHANGED <<scn, enqueued, connected, cur, wire, refused, queue, pending, ppc, gen,
                   produced, batch>>

\* lines 96-103: the send of an except clause; nothing closes the channel
ExceptSend ==
    /\ hpc = "except_send"
    /\ IF connected
       THEN wire' = Append(wire, cur) /\ hpc' = "returned" /\ UNCHANGED refused
       ELSE refused' = Append(refused, cur) /\ hpc' = "raised" /\ UNCHANGED wire
    /\ UNCHANGED <<scn, enqueued, connected, cur, closes, queue, pending, ppc, gen,
                   produced, batch>>

\* The consumer leaves, having received at most MaxDisconnectAfter events
ClientDisconnect ==
    /\ connected
    /\ hpc \notin {"accept", "returned", "raised"}
    /\ Len(Delivered) <= MaxDisconnectAfter
    /\ connected' = FALSE
    /\ UNCHANGED <<scn, enqueued, hpc, cur, wire, refused, closes, queue, pending, ppc,
                   gen, produced, batch>>

--------------------------------------------------------------------------
(* run_pipeline, the producer thread, and the event loop's callbacks *)

Relaying == hpc \in {"get", "send"}

\* The producer is at most MaxInFlight events ahead of the loop and the relay
MayProduce ==
    Len(pending) + (IF Relaying THEN Len(queue) ELSE 0) < MaxInFlight

\* Mutant of PipelineNext: the except clause enqueues the sentinel as well
PipelineNextAlsoEnds ==
    /\ ppc = "run"
    /\ MayProduce
    /\ \E elapsed \in 0..MaxElapsed :
        LET r == GenNext(Inp(scn), gen, elapsed)
            error == ErrorEvent(<<"Pipeline error: ">> \o r.exc.msg)
        IN
        /\ gen' = r.g
        /\ IF r.kind = "yield"
           THEN /\ pending' = Append(pending, r.event)
                /\ enqueued' = Append(enqueued, r.event)
                /\ produced' = Append(produced, r.event)
                /\ ppc' = ppc
           ELSE IF r.kind = "raise"
           THEN /\ pending' = pending \o <<error, [event |-> "_done"]>>
                /\ enqueued' = enqueued \o <<error, [event |-> "_done"]>>
                /\ ppc' = "finally"
                /\ UNCHANGED produced
           ELSE /\ ppc' = "finally"
                /\ UNCHANGED <<pending, enqueued, produced>>
    /\ UNCHANGED <<scn, connected, hpc, cur, wire, refused, closes, queue, batch>>

\* lines 68-80: one iteration of the for loop, or the except clause
PipelineNext ==
    /\ ppc = "run"
    /\ MayProduce
    /\ \E elapsed \in 0..MaxElapsed :
        LET r == GenNext(Inp(scn), gen, elapsed)
            error == ErrorEvent(<<"Pipeline error: ">> \o r.exc.msg)
        IN
        /\ gen' = r.g
        /\ IF r.kind = "yield"
           THEN /\ pending' = Append(pending, r.event)
                /\ enqueued' = Append(enqueued, r.event)
                /\ produced' = Append(produced, r.event)
                /\ ppc' = ppc
           ELSE IF r.kind = "raise"
           THEN /\ pending' = Append(pending, error)
                /\ enqueued' = Append(enqueued, error)
                /\ ppc' = "finally"
                /\ UNCHANGED produced
           ELSE /\ ppc' = "finally"
                /\ UNCHANGED <<pending, enqueued, produced>>
    /\ UNCHANGED <<scn, connected, hpc, cur, wire, refused, closes, queue, batch>>

\* Mutant of PipelineFinally: the producer ends without the sentinel
PipelineFinallyNoSentinel ==
    /\ ppc = "finally"
    /\ MayProduce
    /\ ppc' = "exited"
    /\ UNCHANGED <<scn, connected, hpc, cur, wire, refused, closes, queue, gen,
                   pending, enqueued, produced, batch>>

\* lines 81-82
PipelineFinally ==
    /\ ppc = "finally"
    /\ MayProduce
    /\ pending' = Append(pending, [event |-> "_done"])
    /\ enqueued' = Append(enqueued, [event |-> "_done"])
    /\ ppc' = "exited"
    /\ UNCHANGED <<scn, connected, hpc, cur, wire, refused, closes, queue, gen,
                   produced, batch>>

\* Mutant of put_nowait: a LIFO queue
put_first(q, item) == <<item>> \o q

\* queue.put_nowait as the event loop runs it: the oldest scheduled callback
put_nowait(q, item) == Append(q, item)

\* Mutant of LoopRunCallback: a queue of size 1 whose QueueFull is swallowed
LoopRunCallbackLossy ==
    /\ pending # <<>>
    /\ queue' = IF queue = <<>> THEN <<Head(pending)>> ELSE queue
    /\ pending' = Tail(pending)
    /\ UNCHANGED <<scn, enqueued, connected, hpc, cur, wire, refused, closes, ppc, gen,
                   produced, batch>>

LoopRunCallback ==
    /\ pending # <<>>
    /\ queue' = put_nowait(queue, Head(pending))
    /\ pending' = Tail(pending)
    /\ UNCHANGED <<scn, enqueued, connected, hpc, cur, wire, refused, closes, ppc, gen,
                   produced, batch>>

--------------------------------------------------------------------------
(* debate_endpoint: no await in it, so the event loop runs it in one       *)
(* piece.  It shares no state with the streaming session; the client of    *)
(* the scenario posts its batched request when its session is over.        *)

SessionOver ==
    hpc \in {"returned", "raised"} /\ ppc \in {"idle", "exited"} /\ pending = <<>>

\* lines 26-38; an exception of another type leaves the handler and the
\* framework answers 500
Response(r) ==
    IF r.kind = "return"
    THEN [status |-> 200, body |-> <<r.value>>, exc |-> <<>>, ncalls |-> r.g.ncalls]
    ELSE IF r.exc.type = "ValueError"
    THEN [status |-> 400, body |-> <<>>, exc |-> <<r.exc>>, ncalls |-> r.g.ncalls]
    ELSE [status |-> 500, body |-> <<>>, exc |-> <<r.exc>>, ncalls |-> r.g.ncalls]

debate_endpoint ==
    /\ batch = <<>>
    /\ SessionOver
    /\ scn.payload = "dict"
    /\ ValidRequest(scn)
    /\ \E elapsed \in 0..MaxElapsed :
        batch' = <<Response(run_debate(Inp(scn), elapsed))>>
    /\ UNCHANGED <<scn, enqueued, connected, hpc, cur, wire, refused, closes, queue,
                   pending, ppc, gen, produced>>

--------------------------------------------------------------------------

Next ==
    \/ Accept
    \/ Receive
    \/ SendTimeoutError
    \/ CloseAfterTimeout
    \/ SendReady
    \/ SendReadyAgain
    \/ StartPipeline
    \/ RelayGet
    \/ RelaySend
    \/ AwaitPipelineTask
    \/ Close
    \/ ExceptSend
    \/ ClientDisconnect
    \/ PipelineNext
    \/ PipelineFinally
    \/ LoopRunCallback
    \/ debate_endpoint

Spec == Init /\ [][Next]_vars

\* the steps of the coroutine debate_websocket, which the event loop resumes
\* whenever what it awaits is ready
HandlerStep ==
    \/ Accept
    \/ Receive
    \/ SendTimeoutError
    \/ CloseAfterTimeout
    \/ SendReady
    \/ SendReadyAgain
    \/ StartPipeline
    \/ RelayGet
    \/ RelaySend
    \/ AwaitPipelineTask
    \/ Close
    \/ ExceptSend

\* the steps of the thread that asyncio.to_thread runs run_pipeline on
ProducerStep == PipelineNext \/ PipelineFinally

\* the streaming session of a consumer that stays connected
ConnectedNext == HandlerStep \/ ProducerStep \/ LoopRunCallback

\* Fair scheduling of a session whose consumer stays connected: the event
\* loop runs every ready coroutine and every scheduled callback, the
\* operating system runs the producer thread, and every collaborator call
\* returns or raises.  All that is assumed of the three together is that the
\* server does not stand still while one of them can take a step, which
\* weak fairness of each of them implies.
FairSpec ==
    /\ Init /\ [][ConnectedNext]_vars
    /\ WF_vars(ConnectedNext)

--------------------------------------------------------------------------
(* Properties *)

Last(s) == s[Len(s)]

Front(s) == SubSeq(s, 1, Len(s) - 1)

IsPrefix(a, b) == Len(a) <= Len(b) /\ a = SubSeq(b, 1, Len(a))

IsStep(e) == e.event = "step"

\* the step payloads of a sequence of events, in order
StepsOf(events) ==
    LET ss == SelectSeq(events, IsStep) IN [i \in 1..Len(ss) |-> ss[i].data]

\* how many steps of a list have the stage, and the stage and the round
CountStage(steps, stage) ==
    Cardinality({i \in 1..Len(steps) : steps[i].stage = stage})

CountStageRound(steps, stage, r) ==
    Cardinality({i \in 1..Len(steps) :
                    steps[i].stage = stage /\ steps[i].round = Some(r)})

\* the engine run of the streaming session yielded its done event
EngineCompleted == produced # <<>> /\ Last(produced).event = "done"

StepCountsOK(steps, R, rounds) ==
    /\ CountStage(steps, "setup") = 2
    /\ CountStage(steps, "indexing") = 1
    /\ CountStage(steps, "retrieval") = 1
    /\ CountStage(steps, "evidence") = R
    /\ CountStageRound(steps, "evidence", 0) = R
    /\ CountStageRound(steps, "ambiguity", 0) = 1
    /\ \A r \in 1..rounds :
          /\ CountStageRound(steps, "debate", r) = R
          /\ CountStageRound(steps, "ambiguity", r) = 1
    /\ CountStage(steps, "debate") = rounds * R
    /\ CountStage(steps, "ambiguity") = rounds + 1
    /\ CountStage(steps, "synthesis") = 1
    /\ Len(steps) = 2 + 1 + 1 + R + 1 + rounds * (R + 1) + 1

\* C1: a completed run with R retrieved chunks emits 2 setup, 1 indexing,
\* 1 retrieval, R evidence (round 0), 1 ambiguity for round 0, R debate and
\* 1 ambiguity for each round, 1 synthesis: 2+1+1+R+1+rounds*(R+1)+1 steps.
\* Checked of the streamed run and of the steps run_debate returns.
C1_StepCounts ==
    /\ EngineCompleted =>
          StepCountsOK(StepsOf(produced), Len(gen.retrieved_docs), scn.rounds)
    /\ (batch # <<>> /\ batch[1].status = 200) =>
          StepCountsOK(batch[1].body[1].steps, batch[1].body[1].stats[1].retrieved,
                       scn.rounds)

C1_Witness ==
    /\ EngineCompleted
    /\ Len(gen.retrieved_docs) = 5
    /\ scn.rounds = ROUNDS_MAX
    /\ Len(StepsOf(produced)) = 35

\* a second case of C1: nothing retrieved
C1_WitnessNoChunks ==
    /\ EngineCompleted
    /\ Len(gen.retrieved_docs) = 0
    /\ Len(StepsOf(produced)) = 6 + scn.rounds

\* C2: the PipelineEvents delivered in a session are steps followed by one
\* terminal event, done or error; nothing follows the terminal event, and a
\* session whose consumer stayed connected ends with exactly one.
C2_OneTerminalEvent ==
    /\ \A i \in 1..(Len(Delivered) - 1) : Delivered[i].event = "step"
    /\ (connected /\ hpc = "returned") =>
          /\ Delivered # <<>>
          /\ Last(Delivered).event \in {"done", "error"}

C2_Witness ==
    /\ connected
    /\ hpc = "returned"
    /\ Len(Delivered) > 6
    /\ Last(Delivered).event = "done"

\* the events run_pipeline has handed to the loop or will hand next: what
\* the engine yielded, then the error event if the engine raised
Handed ==
    produced \o (IF gen.exc # <<>>
                 THEN <<ErrorEvent(<<"Pipeline error: ">> \o gen.exc[1].msg)>>
                 ELSE <<>>)

\* C3: under every interleaving of run_pipeline, the loop's callbacks and
\* the relay loop, what the consumer has received is a prefix of what the
\* engine produced, in production order, and all of it once the session of a
\* connected consumer has ended: nothing lost, doubled or reordered.
C3_RelayInOrder ==
    ppc # "idle" =>
        /\ IsPrefix(Delivered, Handed)
        /\ (connected /\ hpc = "returned") => Delivered = Handed

C3_Witness ==
    /\ connected
    /\ hpc = "send"
    /\ Len(queue) + Len(pending) = MaxInFlight
    /\ Len(Delivered) >= 3
    /\ ppc = "run"

\* the done event of the streamed run
DoneEvent == Last(produced)

\* the batched handler answered with a result
BatchOK == batch # <<>> /\ batch[1].status = 200

WithoutTiming(stats) ==
    [f \in (DOMAIN stats) \ {"embedding_seconds"} |-> stats[f]]

\* C4 as stated: the streamed steps, final answer and stats equal those of
\* run_debate, embedding_seconds included.
C4_SameStatsExactly ==
    (EngineCompleted /\ BatchOK) =>
        /\ StepsOf(produced) = batch[1].body[1].steps
        /\ DoneEvent.final_answer = batch[1].body[1].final_answer
        /\ <<DoneEvent.stats>> = batch[1].body[1].stats

\* C4, amended: the streamed steps and final answer equal those run_debate
\* returns, and so does every stats field but embedding_seconds, which each
\* run measures on the clock for itself.
C4_SameButTiming ==
    (EngineCompleted /\ BatchOK) =>
        /\ StepsOf(produced) = batch[1].body[1].steps
        /\ DoneEvent.final_answer = batch[1].body[1].final_answer
        /\ WithoutTiming(DoneEvent.stats) = WithoutTiming(batch[1].body[1].stats[1])
        /\ batch[1].body[1].query = DoneEvent.query

C4_Witness ==
    /\ EngineCompleted
    /\ BatchOK
    /\ Len(batch[1].body[1].steps) >= 10
    /\ DoneEvent.stats.embedding_seconds # batch[1].body[1].stats[1].embedding_seconds

\* the last collaborator call of a run was a Completion Service call that failed
AgentFailedIn(ncalls, prompts) == prompts # <<>> /\ ncalls = scn.failAt

HasDone(events) == \E i \in 1..Len(events) : events[i].event = "done"

\* C5: once a Completion Service call has failed, the engine is closed: no
\* done event, no synthesis step, no further collaborator call; a connected
\* consumer receives the steps produced before the failure and then one error
\* event; run_debate returns nothing and the failure reaches its caller.
C5_FailureEndsRun ==
    /\ gen.ncalls <= scn.failAt \/ scn.failAt = 0
    /\ AgentFailedIn(gen.ncalls, gen.prompts) =>
          /\ gen.pc = "closed"
          /\ gen.exc = <<[type |-> scn.failType, msg |-> <<"collaborator failed">>]>>
          /\ ~HasDone(produced)
          /\ CountStage(StepsOf(produced), "synthesis") = 0
          /\ StepsOf(produced) = [i \in 1..Len(produced) |-> produced[i].data]
          /\ (connected /\ hpc = "returned") =>
                Delivered = Append(produced,
                                   ErrorEvent(<<"Pipeline error: ", "collaborator failed">>))
    /\ (batch # <<>> /\ scn.failAt > 4 /\ batch[1].ncalls = scn.failAt) =>
          /\ batch[1].body = <<>>
          /\ batch[1].status # 200
          /\ batch[1].exc = <<[type |-> scn.failType, msg |-> <<"collaborator failed">>]>>

C5_Witness ==
    /\ AgentFailedIn(gen.ncalls, gen.prompts)
    /\ Len(gen.intermediate_results) = 1
    /\ connected
    /\ hpc = "returned"
    /\ Len(Delivered) >= 6
    /\ batch # <<>>
    /\ batch[1].ncalls = scn.failAt

IsTerminal(e) == e.event \in {"done", "error"}

\* C6: a streaming session that has sent its terminal event has closed the
\* channel exactly once.
C6_ClosedExactlyOnce ==
    (connected /\ hpc = "returned" /\ Delivered # <<>> /\ IsTerminal(Last(Delivered)))
        => closes = 1

RefusedEvents == SelectSeq(refused, IsPipelineEvent)

QueuedEvents == SelectSeq(queue, IsPipelineEvent)

\* C7 as stated: once the consumer of a running stream has disconnected, no
\* step, done or error event is attempted to be sent to it.
C7_NoSendAfterDisconnect ==
    (~connected /\ ppc # "idle") => RefusedEvents = <<>>

\* C7, amended: the handler attempts at most one send on a disconnected
\* consumer, the one that raises WebSocketDisconnect, and has left when it
\* has; run_pipeline goes on to its end: when it has exited and its
\* callbacks have run, every event it produced was delivered, refused or is
\* in the queue, in order, and the sentinel is the last item of the queue.
C7_OneRefusedSend ==
    /\ Len(refused) <= 1
    /\ refused # <<>> => (~connected /\ hpc \in {"returned", "raised"})
    /\ (~connected /\ ppc = "exited" /\ pending = <<>> /\ hpc = "returned") =>
          /\ Delivered \o RefusedEvents \o QueuedEvents = Handed
          /\ refused # <<>> => (queue # <<>> /\ Last(queue).event = "_done")

C7_Witness ==
    /\ ~connected
    /\ Len(Delivered) = MaxDisconnectAfter
    /\ Len(RefusedEvents) = 1
    /\ ppc = "exited"
    /\ pending = <<>>
    /\ HasDone(produced)
    /\ Len(queue) >= 5

\* a collaborator call of the batched run failed
BatchCollabFailed == scn.failAt > 0 /\ batch[1].ncalls = scn.failAt

\* C8: debate_endpoint answers 400 only when no non-empty document remains;
\* a missing credential and every collaborator failure are answered 500.
C8_ClientErrorOnlyForInput ==
    batch # <<>> =>
        /\ batch[1].status = 400 => (scn.hasKey /\ CleanedDocs(scn.documents) = <<>>)
        /\ (~scn.hasKey \/ BatchCollabFailed) => batch[1].status = 500

ConfigurationError ==
    [type |-> "RuntimeError", msg |-> <<"OPENAI_API_KEY is not set in the environment.">>]

InputError ==
    [type |-> "ValueError", msg |-> <<"At least one non-empty document is required.">>]

\* C9: without the credential a run raises the configuration error before
\* any step is emitted or any collaborator invoked, whatever the documents:
\* the stream carries a single error event, the batched answer is a 500.
C9_MissingCredential ==
    ~scn.hasKey =>
        /\ produced = <<>>
        /\ gen.ncalls = 0
        /\ gen.prompts = <<>>
        /\ gen.pc = "closed" => gen.exc = <<ConfigurationError>>
        /\ (connected /\ hpc = "returned" /\ ppc # "idle") =>
              Delivered = <<ErrorEvent(<<"Pipeline error: ">> \o ConfigurationError.msg)>>
        /\ batch # <<>> =>
              /\ batch[1].status = 500
              /\ batch[1].ncalls = 0
              /\ batch[1].body = <<>>
              /\ batch[1].exc = <<ConfigurationError>>

IsBlank(doc) == \A i \in 1..Len(doc) : IsSpace(doc[i])

NotBlank(doc) == ~IsBlank(doc)

C9_Witness ==
    /\ ~scn.hasKey
    /\ Len(scn.documents) = MaxDocs
    /\ \A i \in 1..Len(scn.documents) : IsBlank(scn.documents[i])
    /\ connected
    /\ hpc = "returned"
    /\ closes = 1
    /\ batch # <<>>

\* a whole run of the engine: the events it yields and the exception, if any
RECURSIVE EngineRun(_, _, _, _)
EngineRun(inp, g, events, elapsed) ==
    LET r == GenNext(inp, g, elapsed) IN
    IF r.kind = "yield" THEN EngineRun(inp, r.g, Append(events, r.event), elapsed)
    ELSE [events |-> events, exc |-> r.g.exc]

\* the run on the documents of the scenario that are not blank, the clock
\* measuring what it measured in the streamed run
RunOnNonBlank ==
    EngineRun([Inp(scn) EXCEPT !.documents = SelectSeq(scn.documents, NotBlank)],
              GenInit, <<>>, gen.embedding_seconds)

SomeNotBlank == \E i \in 1..Len(scn.documents) : NotBlank(scn.documents[i])

SameAsOnNonBlank ==
    SomeNotBlank =>
        /\ produced = RunOnNonBlank.events
        /\ gen.exc = RunOnNonBlank.exc

\* C10 as stated: a run yields the events of the run on the non-blank
\* documents, and raises the input error iff every document is blank.
C10_InputErrorIffAllBlank ==
    gen.pc = "closed" =>
        /\ SameAsOnNonBlank
        /\ gen.exc = <<InputError>> <=> ~SomeNotBlank

\* C10, amended: a run yields the events of the run on the non-blank
\* documents; with the credential present it raises the input error iff
\* every document is blank; without it, it raises the configuration error.
C10_InputErrorIffAllBlankWithKey ==
    gen.pc = "closed" =>
        /\ SameAsOnNonBlank
        /\ scn.hasKey => (gen.exc = <<InputError>> <=> ~SomeNotBlank)
        /\ ~scn.hasKey => gen.exc = <<ConfigurationError>>

C10_Witness ==
    /\ EngineCompleted
    /\ gen.pc = "closed"
    /\ Len(scn.documents) = 2
    /\ IsBlank(scn.documents[1])
    /\ Len(gen.cleaned_docs) = 1
    /\ produced = RunOnNonBlank.events

\* a second case of C10: every document blank, the credential present
C10_WitnessAllBlank ==
    /\ gen.pc = "closed"
    /\ scn.hasKey
    /\ ~SomeNotBlank
    /\ gen.exc = <<InputError>>

IsReady(m) == m.event = "ready"

ReadyCount == Len(SelectSeq(wire, IsReady))

\* the pipeline of the session has been started, so the request was valid
PipelineStarted == ppc # "idle"

\* C11: in a session with a valid request the readiness acknowledgment is
\* sent exactly once, and before the first PipelineEvent.
C11_ReadyExactlyOnce ==
    /\ ReadyCount <= 1
    /\ PipelineStarted => ReadyCount = 1
    /\ \A i \in 1..Len(wire), j \in 1..Len(wire) :
          (IsReady(wire[i]) /\ IsPipelineEvent(wire[j])) => i < j

NotSpace(c) == ~IsSpace(c)

\* the text without its whitespace
Squeeze(s) == SelectSeq(s, NotSpace)

\* where the words of a text end: the number of characters of the words
\* before each whitespace run that stands between two words
BreaksOf(s) ==
    {Len(Squeeze(SubSeq(s, 1, i))) : i \in {j \in 1..Len(s) : IsSpace(s[j])}}
        \ {0, Len(Squeeze(s))}

\* the length of a text once its whitespace runs are collapsed
CollapsedLen(s) == Len(Squeeze(s)) + Cardinality(BreaksOf(s))

\* p is text c with every whitespace run collapsed to one space
IsCollapsedOf(p, c) ==
    /\ \A i \in 1..Len(p) : p[i] # "\n"
    /\ p # <<>> => NotSpace(p[1]) /\ NotSpace(p[Len(p)])
    /\ \A i \in 1..(Len(p) - 1) : NotSpace(p[i]) \/ NotSpace(p[i + 1])
    /\ Squeeze(p) = Squeeze(c)
    /\ BreaksOf(p) = BreaksOf(c)

EndsWithEllipsis(p) ==
    Len(p) >= 3 /\ SubSeq(p, Len(p) - 2, Len(p)) = <<".", ".", ".">>

IsRetrievalLines(e) ==
    e.event = "step" /\ e.data.stage = "retrieval" /\ e.data.message[1] = "lines"

\* the previews of the retrieval step, one per retrieved chunk
Previews ==
    LET rs == SelectSeq(produced, IsRetrievalLines) IN
    IF rs = <<>> THEN <<>> ELSE [i \in 1..Len(rs[1].data.message[2]) |->
                                    rs[1].data.message[2][i][3]]

Chunk(i) == gen.retrieved_docs[i].page_content

\* every evidence and debate prompt carries the whole text of its chunk
PromptsCarryChunk ==
    \A k \in 1..Len(gen.prompts) :
        gen.prompts[k].kind \in {"evidence", "debate"} =>
            gen.prompts[k].doc = Chunk(((k - 1) % (Len(gen.retrieved_docs) + 1)) + 1)

\* C12 as stated: a chunk longer than 200 characters has a preview that ends
\* with "..." and is at most 200 long, a chunk of at most 200 characters has
\* its whitespace-collapsed text as preview, and every evidence and debate
\* prompt contains the full chunk text.
C12_PreviewByChunkLength ==
    /\ \A i \in 1..Len(Previews) :
          /\ Len(Chunk(i)) > COMPACT_LIMIT =>
                EndsWithEllipsis(Previews[i]) /\ Len(Previews[i]) <= COMPACT_LIMIT
          /\ Len(Chunk(i)) <= COMPACT_LIMIT => IsCollapsedOf(Previews[i], Chunk(i))
    /\ PromptsCarryChunk

\* C12 amended: the length that decides is that of the chunk after its
\* whitespace runs are collapsed.  Longer than 200, the preview is a cut of
\* the collapsed text that ends with "..." and is at most 200 long; otherwise
\* the preview is the collapsed text.  Every evidence and debate prompt
\* contains the full chunk text.
C12_PreviewByCollapsedLength ==
    /\ \A i \in 1..Len(Previews) :
          /\ CollapsedLen(Chunk(i)) > COMPACT_LIMIT =>
                /\ EndsWithEllipsis(Previews[i])
                /\ Len(Previews[i]) <= COMPACT_LIMIT
                /\ IsPrefix(Squeeze(SubSeq(Previews[i], 1, Len(Previews[i]) - 3)),
                            Squeeze(Chunk(i)))
          /\ CollapsedLen(Chunk(i)) <= COMPACT_LIMIT =>
                IsCollapsedOf(Previews[i], Chunk(i))
    /\ PromptsCarryChunk

\* a chunk cut to its preview, and given whole to an evidence and a debate call
C12_Witness ==
    /\ Previews # <<>>
    /\ CollapsedLen(Chunk(1)) > COMPACT_LIMIT
    /\ EndsWithEllipsis(Previews[1])
    /\ Len(Previews[1]) < Len(Chunk(1))
    /\ \E k \in 1..Len(gen.prompts) :
          gen.prompts[k].kind = "debate" /\ Len(gen.prompts[k].doc) > COMPACT_LIMIT

IsDone(e) == e.event = "done"

\* the generator returned: it was resumed after its last yield and did not raise
EngineReturned == gen.pc = "closed" /\ gen.exc = <<>>

\* C13: a completed run emits exactly one done event, as its last event; it
\* carries the query as submitted, the message of the synthesis step (what
\* the Completion Service returned for the synthesis call) as final_answer,
\* the number of non-empty input documents as stats.documents, the requested
\* rounds as stats.rounds and the number of evidence steps as stats.retrieved.
C13_DoneEvent ==
    /\ \A i \in 1..(Len(produced) - 1) : ~IsDone(produced[i])
    /\ EngineReturned => EngineCompleted
    /\ EngineCompleted =>
          LET steps == StepsOf(produced) IN
          /\ Len(SelectSeq(produced, IsDone)) = 1
          /\ DoneEvent.query = scn.query
          /\ Last(steps).stage = "synthesis"
          /\ DoneEvent.final_answer = Last(steps).message
          /\ Last(gen.prompts).kind = "synthesis"
          /\ DoneEvent.final_answer = Complete(Last(gen.prompts))
          /\ DoneEvent.stats.documents = Len(SelectSeq(scn.documents, NotBlank))
          /\ DoneEvent.stats.rounds = scn.rounds
          /\ DoneEvent.stats.retrieved = CountStage(steps, "evidence")

\* a run over a blank and a non-blank document that returned after its done
C13_Witness ==
    /\ EngineCompleted
    /\ EngineReturned
    /\ Len(scn.documents) = 2
    /\ DoneEvent.stats.documents = 1
    /\ DoneEvent.stats.retrieved = 1
    /\ CountStage(StepsOf(produced), "evidence") = 1

\* the answers of round r among the steps, in order: those of the evidence
\* steps for round 0, of the debate steps of round r after it
AnswersOf(steps, r) ==
    LET InRound(st) ==
            st.stage = (IF r = 0 THEN "evidence" ELSE "debate") /\ st.round = Some(r)
        sel == SelectSeq(steps, InRound)
    IN  [i \in 1..Len(sel) |-> sel[i].message]

\* the guidance of round r: the messages of its ambiguity steps
GuidanceOf(steps, r) ==
    LET InRound(st) == st.stage = "ambiguity" /\ st.round = Some(r)
        sel == SelectSeq(steps, InRound)
    IN  [i \in 1..Len(sel) |-> sel[i].message]

\* C14: each of the R debate calls of round r >= 1 is given the R answers of
\* round r-1, in retrieval order, and the guidance of the ambiguity check of
\* round r-1; the ambiguity check of round r is given the R answers of round
\* r; the synthesis call is given the R answers of the last round.  The k-th
\* call of a run is call pos of block b, a block being R calls for the
\* chunks and one ambiguity check.
C14_RoundInputs ==
    LET steps == StepsOf(produced)
        R == Len(gen.retrieved_docs)
        P == gen.prompts
    IN  \A k \in 1..Len(P) :
            LET b == (k - 1) \div (R + 1)
                pos == ((k - 1) % (R + 1)) + 1
            IN  /\ b <= scn.rounds + 1
                /\ (b = 0 /\ pos <= R) => P[k].kind = "evidence"
                /\ (b >= 1 /\ b <= scn.rounds /\ pos <= R) =>
                      /\ P[k].kind = "debate"
                      /\ P[k].responses = AnswersOf(steps, b - 1)
                      /\ Len(P[k].responses) = R
                      /\ <<P[k].guidance>> = GuidanceOf(steps, b - 1)
                /\ (b <= scn.rounds /\ pos = R + 1) =>
                      /\ P[k].kind = "ambiguity"
                      /\ P[k].responses = AnswersOf(steps, b)
                      /\ Len(P[k].responses) = R
                /\ b = scn.rounds + 1 =>
                      /\ pos = 1
                      /\ P[k].kind = "synthesis"
                      /\ P[k].responses = AnswersOf(steps, scn.rounds)
                      /\ Len(P[k].responses) = R

\* a completed run of two rounds over three chunks whose answers changed
\* from round to round
C14_Witness ==
    /\ EngineCompleted
    /\ Len(gen.retrieved_docs) = 3
    /\ scn.rounds = 2
    /\ Len(gen.prompts) = 13
    /\ AnswersOf(StepsOf(produced), 0) # AnswersOf(StepsOf(produced), 1)
    /\ AnswersOf(StepsOf(produced), 1) # AnswersOf(StepsOf(produced), 2)

\* the number of steps of a completed run over R chunks
StepTotal(R, rounds) == 4 + (R + 1) * (rounds + 1) + 1

\* the stage, the round tag and the chunk position (0: none) that the fixed
\* pattern gives to the n-th step of a run over R chunks
Expected(n, R, rounds) ==
    LET k == n - 4
        b == (k - 1) \div (R + 1)
        pos == ((k - 1) % (R + 1)) + 1
    IN  IF n <= 4
        THEN [stage |-> <<"setup", "indexing", "setup", "retrieval">>[n],
              round |-> None, pos |-> 0]
        ELSE IF n = StepTotal(R, rounds)
        THEN [stage |-> "synthesis", round |-> Some(rounds), pos |-> 0]
        ELSE IF pos = R + 1
        THEN [stage |-> "ambiguity", round |-> Some(b), pos |-> 0]
        ELSE [stage |-> IF b = 0 THEN "evidence" ELSE "debate",
              round |-> Some(b), pos |-> pos]

\* C15: the steps of a run follow the pattern setup, indexing, setup,
\* retrieval, evidence x R, ambiguity, rounds x (debate x R, ambiguity),
\* synthesis, and done comes after the whole pattern; round tags never
\* decrease and run from 0 to rounds; evidence and debate steps are in
\* retrieval order and carry the doc_id of their chunk.
C15_StagePattern ==
    LET steps == StepsOf(produced)
        R == Len(gen.retrieved_docs)
        N == StepTotal(R, scn.rounds)
    IN  /\ Len(steps) <= N
        /\ \A n \in 1..Len(steps) :
              LET e == Expected(n, R, scn.rounds) IN
              /\ IsStep(produced[n])
              /\ steps[n].stage = e.stage
              /\ steps[n].round = e.round
              /\ e.pos = 0 => steps[n].doc_id = None
              /\ e.pos > 0 =>
                    /\ steps[n].doc_id = Some(gen.retrieved_docs[e.pos].metadata.doc_id)
                    /\ steps[n].doc_id = steps[4 + e.pos].doc_id
        /\ \A i \in 1..Len(steps), j \in 1..Len(steps) :
              (i < j /\ steps[i].round # None /\ steps[j].round # None)
                  => steps[i].round[1] <= steps[j].round[1]
        /\ EngineCompleted =>
              /\ Len(steps) = N
              /\ Len(produced) = N + 1
              /\ steps[5 + R].round = Some(0)
              /\ steps[N].round = Some(scn.rounds)

\* a completed run over the chunks of documents 2 and 1, in that order
C15_Witness ==
    /\ EngineCompleted
    /\ Len(gen.retrieved_docs) = 2
    /\ Len(produced) = 12
    /\ produced[5].data.doc_id = Some(2)
    /\ produced[9].data.stage = "debate"
    /\ produced[9].data.doc_id = Some(1)
    /\ produced[10].data.stage = "ambiguity"

IsSentinel(e) == e.event = "_done"

IsError(e) == e.event = "error"

\* C16: run_pipeline enqueues exactly one sentinel, as its last item, after
\* the done event when the engine ended normally and after exactly one
\* synthesized error event when the engine raised; the sentinel is never
\* sent to the consumer.
C16_OneSentinelLast ==
    /\ \A i \in 1..(Len(enqueued) - 1) : ~IsSentinel(enqueued[i])
    /\ ppc = "exited" <=> (enqueued # <<>> /\ IsSentinel(Last(enqueued)))
    /\ ppc = "exited" => Len(SelectSeq(enqueued, IsSentinel)) = 1
    /\ (ppc = "exited" /\ gen.exc # <<>>) =>
          /\ Len(enqueued) >= 2
          /\ enqueued[Len(enqueued) - 1]
                = ErrorEvent(<<"Pipeline error: ">> \o gen.exc[1].msg)
          /\ Len(SelectSeq(enqueued, IsError)) = 1
    /\ (ppc = "exited" /\ gen.exc = <<>>) =>
          /\ Len(enqueued) >= 2
          /\ IsDone(enqueued[Len(enqueued) - 1])
    /\ gen.exc = <<>> => SelectSeq(enqueued, IsError) = <<>>
    /\ SelectSeq(wire, IsSentinel) = <<>>
    /\ SelectSeq(refused, IsSentinel) = <<>>
    /\ hpc = "send" => ~IsSentinel(cur)

\* the engine raised after some steps, and the relay took the sentinel off
\* the queue and closed the channel of a connected consumer
C16_Witness ==
    /\ ppc = "exited"
    /\ gen.exc # <<>>
    /\ Len(enqueued) >= 4
    /\ IsError(enqueued[Len(enqueued) - 1])
    /\ connected
    /\ hpc = "returned"
    /\ closes = 1
    /\ queue = <<>>

\* a second case of C16: the engine ended normally
C16_WitnessNormalEnd ==
    /\ ppc = "exited"
    /\ gen.exc = <<>>
    /\ IsDone(enqueued[Len(enqueued) - 1])
    /\ hpc = "returned"
    /\ connected

\* the relay loop took everything off the queue, the sentinel last, and the
\* handler ended after a terminal event and the close of the channel
ClosedAfterTerminal ==
    /\ ppc = "exited"
    /\ pending = <<>>
    /\ queue = <<>>
    /\ closes = 1
    /\ Delivered # <<>>
    /\ IsTerminal(Last(Delivered))

\* C17: under fair scheduling, with collaborator calls that return or raise
\* and a consumer that stays connected, a relay loop that was started takes
\* the sentinel off the queue, the handler sends a terminal event and closes
\* the channel, and the relay loop is never blocked forever on an empty queue.
C17_SessionTerminates ==
    (hpc = "get") ~> (connected /\ hpc = "returned" /\ ClosedAfterTerminal)

\* a session whose producer ran MaxInFlight events ahead of the relay and
\* that ended with done and the close of the channel
C17_Witness ==
    /\ connected
    /\ ClosedAfterTerminal
    /\ IsDone(Last(Delivered))
    /\ ppc = "exited"
    /\ pending = <<>>
    /\ queue = <<>>
    /\ Len(wire) = Len(enqueued) + 1

\* C18: when no payload arrives within the handshake window, the handler
\* sends exactly one error event and closes the channel; it sends no
\* readiness acknowledgment, starts no engine run and calls no collaborator.
C18_HandshakeTimeout ==
    scn.payload = "none" =>
        /\ SelectSeq(wire \o refused, IsReady) = <<>>
        /\ Len(wire \o refused) <= 1
        /\ ppc = "idle" /\ gen = GenInit /\ gen.ncalls = 0
        /\ produced = <<>> /\ enqueued = <<>> /\ pending = <<>> /\ batch = <<>>
        /\ closes <= 1
        /\ (connected /\ hpc = "returned") =>
              /\ wire = <<ErrorEvent(<<"No payload received. Send JSON after connecting.">>)>>
              /\ closes = 1

\* the handshake window ran out on a connected consumer and the handler ended
C18_Witness ==
    /\ scn.payload = "none"
    /\ connected
    /\ hpc = "returned"
    /\ Len(wire) = 1
    /\ IsError(wire[1])
    /\ closes = 1

====
